---- MODULE Spec2Model ----
(***************************************************************************)
(* Bytecode frequency counter (src/main.cpp): BytecodeFile::load reads a   *)
(* header and the rest of the stream, Frequencies::parse walks the code    *)
(* region instruction by instruction, Frequencies::print sorts the table   *)
(* and writes one line per entry.                                          *)
(*                                                                         *)
(* Conventions of the model.                                               *)
(*  - A pointer into BytecodeFile::bytes is the 0-based index of the byte. *)
(*  - Text written to the output stream is a sequence of ASCII codes       *)
(*    (std::string_view and std::string compare bytes as unsigned chars).  *)
(*  - int32_t values are integers in -2^31 .. 2^31-1; anything the code    *)
(*    computes in 32 bits is reduced to 32 bits here through 16-bit        *)
(*    halves.  size_t is 64 bits wide (LP64): no size_t sum of the model   *)
(*    wraps, and a negative int converted to size_t exceeds every buffer   *)
(*    length; such values are represented by HugeSize.                     *)
(***************************************************************************)
EXTENDS Integers, Sequences, FiniteSets

VARIABLES
  in_hdr,                 \* input stream: the three header words <<sts, gas, psn>>
  in_rest,                \* input stream: the bytes that follow the header
  in_good,                \* input stream: FALSE when the header read hit end of file
  wraps,                  \* the build: TRUE when int overflow wraps to 32 bits
  stringtab_size,         \* BytecodeFile fields
  global_area_size,
  public_symbols_number,
  bytes,
  stringtab_start,
  code_start,
  pc,                     \* position in main: "load", "parse", "print", "done", "error"
  err,                    \* what() of the exception that ended the run, "" if none
  offset,                 \* cursor of Frequencies::parse
  freq,                   \* Frequencies::freq: Instruction (its start pointer) -> count
  sorted,                 \* the vector Frequencies::print sorts
  k,                      \* index of the next entry of sorted to print
  os,                     \* everything written to the output stream so far
  walked,                 \* history: the instructions get_instr returned, in order
  strs,                   \* history: the get_str calls that returned, with the text's end
  oob                     \* history: TRUE once a byte outside bytes has been read

vars == <<in_hdr, in_rest, in_good, wraps, stringtab_size, global_area_size,
          public_symbols_number, bytes, stringtab_start, code_start, pc, err,
          offset, freq, sorted, k, os, walked, strs, oob>>

-----------------------------------------------------------------------------
(* Bounds of the model. *)

\* number of byte chunks an input's code region is concatenated from
MaxChunks == 2

\* decode steps the walk may take beyond the code size before the model stops it
MaxExtraSteps == 2

-----------------------------------------------------------------------------
(* Integer widths. *)

\* stands for every size_t value of 2^31 - 1 or more
HugeSize == 2147483647

\* the 32-bit pattern with 16-bit halves hi, lo read as an int32_t
Int32Of(hi, lo) ==
  IF hi >= 32768 THEN (hi - 65536) * 65536 + lo ELSE hi * 65536 + lo

\* conversion of an int to size_t
ToSizeT(v) == IF v < 0 THEN HugeSize ELSE v

\* uint32_t product 8 * n, for n < 2^31: 8n mod 2^32 = 8 (n mod 2^29),
\* computed through 16-bit halves
Mul8U32(n) ==
  LET m  == n % 536870912
      lo == (m % 65536) * 8
      hi == (m \div 65536) * 8 + (lo \div 65536)
  IN  [hi |-> hi % 65536, lo |-> lo % 65536]

\* a uint32_t given by its halves, widened to size_t
U32ToSizeT(h) == IF h.hi >= 32768 THEN HugeSize ELSE h.hi * 65536 + h.lo

\* size_t sum, kept below HugeSize
AddSizeT(a, b) ==
  IF a >= HugeSize \/ b >= HugeSize \/ a >= HugeSize - b THEN HugeSize ELSE a + b

get_i32_le(p) ==
  LET lo == bytes[p + 1] + 256 * bytes[p + 2]
      hi == bytes[p + 3] + 256 * bytes[p + 4]
  IN  Int32Of(hi, lo)

-----------------------------------------------------------------------------
(* Text. *)

Mnemonic ==
  [ end     |-> <<60, 101, 110, 100, 62>>,                  \* "<end>"
    BINOP   |-> <<66, 73, 78, 79, 80, 32>>,                 \* "BINOP "
    CONST   |-> <<67, 79, 78, 83, 84, 32>>,                 \* "CONST "
    STRING  |-> <<83, 84, 82, 73, 78, 71, 32>>,             \* "STRING "
    SEXP    |-> <<83, 69, 88, 80, 9>>,                      \* "SEXP\t"
    STI     |-> <<83, 84, 73>>,                             \* "STI"
    STA     |-> <<83, 84, 65>>,                             \* "STA"
    JMP     |-> <<74, 77, 80, 9, 48, 120>>,                 \* "JMP\t0x"
    END     |-> <<69, 78, 68>>,                             \* "END"
    RET     |-> <<82, 69, 84>>,                             \* "RET"
    DROP    |-> <<68, 82, 79, 80>>,                         \* "DROP"
    DUP     |-> <<68, 85, 80>>,                             \* "DUP"
    SWAP    |-> <<83, 87, 65, 80>>,                         \* "SWAP"
    ELEM    |-> <<69, 76, 69, 77>>,                         \* "ELEM"
    CJMPz   |-> <<67, 74, 77, 80, 122, 9, 48, 120>>,        \* "CJMPz\t0x"
    CJMPnz  |-> <<67, 74, 77, 80, 110, 122, 9, 48, 120>>,   \* "CJMPnz\t0x"
    BEGIN   |-> <<66, 69, 71, 73, 78, 9>>,                  \* "BEGIN\t"
    CBEGIN  |-> <<67, 66, 69, 71, 73, 78, 9>>,              \* "CBEGIN\t"
    CLOSURE |-> <<67, 76, 79, 83, 85, 82, 69, 9>>,          \* "CLOSURE\t"
    CALLC   |-> <<67, 65, 76, 76, 67, 9>>,                  \* "CALLC\t"
    CALL    |-> <<67, 65, 76, 76, 9, 48, 120>>,             \* "CALL\t0x"
    TAG     |-> <<84, 65, 71, 9>>,                          \* "TAG\t"
    ARRAY   |-> <<65, 82, 82, 65, 89, 9>>,                  \* "ARRAY\t"
    FAIL    |-> <<70, 65, 73, 76, 9>>,                      \* "FAIL\t"
    LINE    |-> <<76, 73, 78, 69, 9>>,                      \* "LINE\t"
    PATT    |-> <<80, 65, 84, 84, 9>>,                      \* "PATT\t"
    Lread   |-> <<67, 65, 76, 76, 9, 76, 114, 101, 97, 100>>,            \* "CALL\tLread"
    Lwrite  |-> <<67, 65, 76, 76, 9, 76, 119, 114, 105, 116, 101>>,      \* "CALL\tLwrite"
    Llength |-> <<67, 65, 76, 76, 9, 76, 108, 101, 110, 103, 116, 104>>, \* "CALL\tLlength"
    Lstring |-> <<67, 65, 76, 76, 9, 76, 115, 116, 114, 105, 110, 103>>, \* "CALL\tLstring"
    Barray  |-> <<67, 65, 76, 76, 9, 66, 97, 114, 114, 97, 121, 9>>,     \* "CALL\tBarray\t"
    x       |-> <<32, 120, 32>> ]                           \* " x "

\* "+", "-", "*", "/", "%", "<", "<=", ">", ">=", "==", "!=", "&&", "!!"
BINOPS ==
  << <<43>>, <<45>>, <<42>>, <<47>>, <<37>>, <<60>>, <<60, 61>>, <<62>>,
     <<62, 61>>, <<61, 61>>, <<33, 61>>, <<38, 38>>, <<33, 33>> >>

\* "LD", "LDA", "ST"
MEMORY_OPS == << <<76, 68>>, <<76, 68, 65>>, <<83, 84>> >>

\* "=str", "#string", "#array", "#sexp", "#ref", "#val", "#fun"
PATTERNS ==
  << <<61, 115, 116, 114>>, <<35, 115, 116, 114, 105, 110, 103>>,
     <<35, 97, 114, 114, 97, 121>>, <<35, 115, 101, 120, 112>>,
     <<35, 114, 101, 102>>, <<35, 118, 97, 108>>, <<35, 102, 117, 110>> >>

\* " G", " L", " A", " C" of a closure's capture kinds, "G".."C" of a memory operation
KindLetter == <<71, 76, 65, 67>>

RECURSIVE DecNat(_)
\* operator<< of a non-negative integer in decimal
DecNat(n) == IF n < 10 THEN <<48 + n>> ELSE DecNat(n \div 10) \o <<48 + (n % 10)>>

\* operator<< of an int32_t under std::dec
Dec(v) == IF v < 0 THEN <<45>> \o DecNat(-v) ELSE DecNat(v)

HexDigit(d) == IF d < 10 THEN 48 + d ELSE 87 + d

Hex4(h) ==
  << HexDigit(h \div 4096), HexDigit((h \div 256) % 16),
     HexDigit((h \div 16) % 16), HexDigit(h % 16) >>

\* operator<< of an int32_t under setw(8), setfill('0'), std::hex: the eight
\* lowercase digits of its 32-bit pattern
Hex8(v) == Hex4((v \div 65536) % 65536) \o Hex4(v % 65536)

RECURSIVE LexLess(_, _)
\* std::string_view operator<: bytes compared as unsigned, a proper prefix first
LexLess(a, b) ==
  IF b = <<>> THEN FALSE
  ELSE IF a = <<>> THEN TRUE
  ELSE IF Head(a) # Head(b) THEN Head(a) < Head(b)
  ELSE LexLess(Tail(a), Tail(b))

-----------------------------------------------------------------------------
(* BytecodeFile. *)

\* bytes.size()
size == Len(bytes)

code_size == size - code_start

\* result of a call that throws instead of returning
Throws == -1

\* BytecodeFile::get_str: the pointer returned, or Throws.  off arrives as an
\* int32_t converted to size_t
BytecodeFile_get_str(off) ==
  IF 0 > ToSizeT(off) \/ ToSizeT(off) >= stringtab_size
    THEN Throws
    ELSE stringtab_start + ToSizeT(off)

RECURSIVE CStrEnd(_)
\* index of the byte that ends the NUL-terminated text at p, as operator<< of a
\* const char* finds it; size when no byte of the buffer at or after p is 0
CStrEnd(p) ==
  IF p >= size THEN size
  ELSE IF bytes[p + 1] = 0 THEN p
  ELSE CStrEnd(p + 1)

-----------------------------------------------------------------------------
(* Instruction. start is the pointer the Instruction holds. *)

Hi(start) == bytes[start + 1] \div 16

Lo(start) == bytes[start + 1] % 16

\* 9 + 5 * len in int, converted to size_t.  Outside the range where the int
\* sum is exact the behaviour is undefined: a build either wraps to 32 bits or
\* evaluates in the 64 bits of the result
ClosureSize(len) ==
  IF -429496731 <= len /\ len <= 429496727
    THEN ToSizeT(9 + 5 * len)
    ELSE IF wraps
      THEN LET lo == 5 * (len % 65536) + 9
               hi == 5 * ((len \div 65536) % 65536) + (lo \div 65536)
           IN  ToSizeT(Int32Of(hi % 65536, lo % 65536))
      ELSE HugeSize

\* Instruction::size: the length, or Throws ("Invalid opcode")
Instruction_size(start) ==
  LET hi == Hi(start)
      lo == Lo(start)
  IN  CASE hi = 15 \/ hi = 0 -> 1
        [] hi = 1 ->
             (CASE lo \in {0, 1} -> 5
                [] lo = 2 -> 9
                [] lo \in {3, 4} -> 1
                [] lo = 5 -> 5
                [] lo \in 6..11 -> 1
                [] OTHER -> Throws)
        [] hi \in {2, 3, 4} -> 5
        [] hi = 5 ->
             (CASE lo \in {0, 1} -> 5
                [] lo \in {2, 3} -> 9
                [] lo = 4 -> ClosureSize(get_i32_le(start + 5))
                [] lo = 5 -> 5
                [] lo \in {6, 7} -> 9
                [] lo = 8 -> 5
                [] lo = 9 -> 9
                [] lo = 10 -> 5
                [] OTHER -> Throws)
        [] hi = 6 -> 1
        [] hi = 7 ->
             (CASE lo \in 0..3 -> 1
                [] lo = 4 -> 5
                [] OTHER -> Throws)
        [] OTHER -> Throws

\* Instruction::fits_in_size: "true", "false", or "throw" when size() throws
fits_in_size(start, limit) ==
  IF bytes[start + 1] = 84 /\ limit < 9 THEN "false"
  ELSE IF Instruction_size(start) = Throws THEN "throw"
  ELSE IF Instruction_size(start) <= limit THEN "true" ELSE "false"

\* Instruction::as_sv
as_sv(start) == SubSeq(bytes, start + 1, start + Instruction_size(start))

\* BytecodeFile::get_instr: "" and the Instruction, or the exception's what()
get_instr(off) ==
  IF off >= code_size THEN [err |-> "EOF", start |-> 0]
  ELSE LET start == code_start + off
           fits  == fits_in_size(start, code_size - off)
       IN  IF fits = "throw" THEN [err |-> "Invalid opcode", start |-> start]
           ELSE IF fits = "false" THEN [err |-> "EOF", start |-> start]
           ELSE [err |-> "", start |-> start]

\* Instruction::get_int
get_int(start, off) == get_i32_le(start + off)

\* One way Instruction::print can go: the text written before it returned or
\* threw, the exception's what() ("" when it returned), whether it read outside
\* bytes, and the get_str calls that returned
Printed(out, e) == [out |-> out, err |-> e, oob |-> FALSE, strs |-> {}]

\* stands in the output for a run of bytes, possibly empty, that depends on
\* memory outside bytes
Garbage == -1

\* A read outside bytes is undefined: what is printed from there on depends on
\* the memory read, until the run is killed or a byte read is not a capture kind
\* and print throws
OutOfBounds(out) ==
  { [out |-> out \o <<Garbage>>, err |-> e, oob |-> TRUE, strs |-> {}] :
      e \in {"SIGSEGV", "Invalid CLOSURE"} }

\* os << get_str(src, 1) << ' ' << get_int(5), after the mnemonic
PrintStr(start, mn) ==
  LET off == get_int(start, 1)
      p   == BytecodeFile_get_str(off)
      e   == CStrEnd(p)
      rd  == [off |-> off, ptr |-> p, end |-> e]
  IN  IF p = Throws
        THEN {Printed(mn, "String virtual address out of bounds")}
      ELSE IF e >= size
        THEN { [out |-> mn \o SubSeq(bytes, p + 1, size) \o <<Garbage>>,
                err |-> "SIGSEGV", oob |-> TRUE, strs |-> {rd}],
               [out |-> mn \o SubSeq(bytes, p + 1, size) \o <<Garbage, 32>>
                           \o Dec(get_int(start, 5)),
                err |-> "", oob |-> TRUE, strs |-> {rd}] }
      ELSE { [out |-> mn \o SubSeq(bytes, p + 1, e) \o <<32>>
                         \o Dec(get_int(start, 5)),
              err |-> "", oob |-> FALSE, strs |-> {rd}] }

RECURSIVE PrintCaptures(_, _, _, _)
\* the loop over a closure's n capture entries, from entry i on, out written so far
PrintCaptures(start, i, n, out) ==
  IF ~(i < n) THEN {Printed(out, "")}
  ELSE IF start + 9 + 5 * i >= size THEN OutOfBounds(out)
  ELSE LET kind == bytes[start + 9 + 5 * i + 1]
       IN  IF kind \notin 0..3 THEN {Printed(out, "Invalid CLOSURE")}
           ELSE LET out2 == out \o <<32, KindLetter[kind + 1], 40>>
                IN  IF start + 10 + 5 * i + 4 > size THEN OutOfBounds(out2)
                    ELSE PrintCaptures(start, i + 1, n,
                           out2 \o Dec(get_int(start, 10 + 5 * i)) \o <<41>>)

\* Instruction::print: the set of ways it can go (one, unless behaviour is undefined)
Instruction_print(start) ==
  LET hi == Hi(start)
      lo == Lo(start)
      M  == Mnemonic
      i1 == get_int(start, 1)
      i5 == get_int(start, 5)
  IN  CASE hi = 15 -> {Printed(M.end, "")}
        [] hi = 0 ->
             IF lo = 0 \/ lo > Len(BINOPS) THEN {Printed(<<>>, "Invalid BINOP")}
             ELSE {Printed(M.BINOP \o BINOPS[lo], "")}
        [] hi = 1 ->
             (CASE lo = 0 -> {Printed(M.CONST \o Dec(i1), "")}
                [] lo = 1 -> {Printed(M.STRING \o Dec(i1), "")}
                [] lo = 2 -> PrintStr(start, M.SEXP)
                [] lo = 3 -> {Printed(M.STI, "")}
                [] lo = 4 -> {Printed(M.STA, "")}
                [] lo = 5 -> {Printed(M.JMP \o Hex8(i1), "")}
                [] lo = 6 -> {Printed(M.END, "")}
                [] lo = 7 -> {Printed(M.RET, "")}
                [] lo = 8 -> {Printed(M.DROP, "")}
                [] lo = 9 -> {Printed(M.DUP, "")}
                [] lo = 10 -> {Printed(M.SWAP, "")}
                [] lo = 11 -> {Printed(M.ELEM, "")}
                [] OTHER -> {Printed(<<>>, "Invalid opcode")})
        [] hi \in {2, 3, 4} ->
             IF lo \notin 0..3
               THEN {Printed(MEMORY_OPS[hi - 1] \o <<9>>, "Invalid memory operation")}
               ELSE {Printed(MEMORY_OPS[hi - 1] \o <<9, KindLetter[lo + 1], 40>>
                               \o Dec(i1) \o <<41>>, "")}
        [] hi = 5 ->
             (CASE lo = 0 -> {Printed(M.CJMPz \o Hex8(i1), "")}
                [] lo = 1 -> {Printed(M.CJMPnz \o Hex8(i1), "")}
                [] lo = 2 -> {Printed(M.BEGIN \o Dec(i1) \o <<32>> \o Dec(i5), "")}
                [] lo = 3 -> {Printed(M.CBEGIN \o Dec(i1) \o <<32>> \o Dec(i5), "")}
                [] lo = 4 -> PrintCaptures(start, 0, i5, M.CLOSURE \o Hex8(i1))
                [] lo = 5 -> {Printed(M.CALLC \o Dec(i1), "")}
                [] lo = 6 -> {Printed(M.CALL \o Hex8(i1) \o <<32>> \o Dec(i5), "")}
                [] lo = 7 -> PrintStr(start, M.TAG)
                [] lo = 8 -> {Printed(M.ARRAY \o Dec(i1), "")}
                [] lo = 9 -> {Printed(M.FAIL \o Dec(i1) \o <<32>> \o Dec(i5), "")}
                [] lo = 10 -> {Printed(M.LINE \o Dec(i1), "")}
                [] OTHER -> {Printed(<<>>, "Invalid opcode")})
        [] hi = 6 ->
             IF lo >= Len(PATTERNS) THEN {Printed(<<>>, "Invalid PATT")}
             ELSE {Printed(M.PATT \o PATTERNS[lo + 1], "")}
        [] hi = 7 ->
             (CASE lo = 0 -> {Printed(M.Lread, "")}
                [] lo = 1 -> {Printed(M.Lwrite, "")}
                [] lo = 2 -> {Printed(M.Llength, "")}
                [] lo = 3 -> {Printed(M.Lstring, "")}
                [] lo = 4 -> {Printed(M.Barray \o Dec(i1), "")}
                [] OTHER -> {Printed(<<>>, "Invalid opcode")})
        \* the label "deafult:" is no case of the switch: classes 8..14 print nothing
        [] OTHER -> {Printed(<<>>, "")}

-----------------------------------------------------------------------------
(* Inputs. *)

\* byte strings the code region of an input is concatenated from: whole
\* instructions, instructions cut short, and bytes no opcode table lists
Chunks ==
  { <<1>>,                                    \* BINOP +
    <<3>>,                                    \* BINOP *
    <<240>>, <<241>>,                         \* 0xF0, 0xF1
    <<0>>,                                    \* 0x00
    <<128>>,                                  \* 0x80
    <<103>>,                                  \* 0x67
    <<16, 5, 0, 0, 0>>,                       \* CONST 5
    <<17, 5, 0, 0, 0>>,                       \* STRING, operand 5
    <<21, 16, 0, 0, 0>>,                      \* JMP 0x10
    <<36, 0, 0, 0, 0>>,                       \* 0x24, operand 0
    <<18, 0, 0, 0, 0, 1, 0, 0, 0>>,           \* SEXP, string offset 0, arity 1
    <<18, 2, 0, 0, 0, 1, 0, 0, 0>>,           \* SEXP, string offset 2, arity 1
    <<87, 255, 255, 255, 255, 0, 0, 0, 0>>,   \* TAG, string offset -1
    <<84, 0, 0, 0, 0, 0, 0, 0, 0>>,           \* CLOSURE, n = 0
    <<84, 0, 0, 0, 0, 1, 0, 0, 0, 1, 2, 0, 0, 0>>,   \* CLOSURE, n = 1, L(2)
    <<84, 0, 0, 0, 0, 2, 0, 0, 0, 0, 7, 0, 0, 0>>,   \* CLOSURE, n = 2, one entry
    <<84, 0, 0, 0, 0, 255, 255, 255, 255>>,   \* CLOSURE, n = -1
    <<84, 0, 0, 0, 0, 52, 51, 51, 51, 0, 1, 0, 0>>,  \* CLOSURE, n = 0x33333334
    <<84, 1, 0, 0, 0, 203, 204, 204, 204>> }  \* CLOSURE, n = 0xCCCCCCCB

RECURSIVE Codes(_)
\* the concatenations of at most n chunks
Codes(n) ==
  IF n = 0 THEN {<<>>}
  ELSE LET shorter == Codes(n - 1)
       IN  shorter \cup {c \o ch : c \in shorter, ch \in Chunks}

Zeros8 == <<0, 0, 0, 0, 0, 0, 0, 0>>

\* headers, with the bytes that precede the code region
Containers ==
  { [sts |-> 0, gas |-> 0, psn |-> 0, prefix |-> <<>>, good |-> TRUE],
    [sts |-> 4, gas |-> 3, psn |-> 0, prefix |-> <<97, 0, 97, 0>>, good |-> TRUE],
    [sts |-> 2, gas |-> 0, psn |-> 0, prefix |-> <<97, 98>>, good |-> TRUE],
    [sts |-> 2, gas |-> 0, psn |-> 1, prefix |-> Zeros8 \o <<97, 0>>, good |-> TRUE],
    [sts |-> 0, gas |-> 0, psn |-> 536870912, prefix |-> <<>>, good |-> TRUE],
    [sts |-> 100, gas |-> 0, psn |-> 0, prefix |-> <<97, 0>>, good |-> TRUE],
    [sts |-> 0, gas |-> 0, psn |-> 1, prefix |-> <<>>, good |-> TRUE],
    [sts |-> 0, gas |-> 0, psn |-> 0, prefix |-> <<>>, good |-> FALSE] }

-----------------------------------------------------------------------------
(* main. *)

Init ==
  /\ \E c \in Containers, code \in Codes(MaxChunks) :
       /\ in_hdr = <<c.sts, c.gas, c.psn>>
       /\ in_good = c.good
       /\ in_rest = IF c.good THEN c.prefix \o code ELSE <<>>
  /\ wraps \in BOOLEAN
  /\ stringtab_size = 0
  /\ global_area_size = 0
  /\ public_symbols_number = 0
  /\ bytes = <<>>
  /\ stringtab_start = 0
  /\ code_start = 0
  /\ pc = "load"
  /\ err = ""
  /\ offset = 0
  /\ freq = <<>>
  /\ sorted = <<>>
  /\ k = 1
  /\ os = <<>>
  /\ walked = <<>>
  /\ strs = {}
  /\ oob = FALSE

\* load_throws without the check of the string table's last byte
load_throws_unterminated(sts, psn, b, good) ==
  LET st_start == 0 + U32ToSizeT(Mul8U32(psn))
      c_start  == AddSizeT(st_start, sts)
  IN  IF st_start >= Len(b) THEN "Incorrect metadata: public_symbols_number"
      ELSE IF c_start >= Len(b) THEN "Incorrect metadata: stringtab_size"
      ELSE IF ~good THEN "IO error"
      ELSE ""

\* what load throws once it has read sts and psn and the bytes b, "" if nothing
load_throws(sts, psn, b, good) ==
  LET st_start == 0 + U32ToSizeT(Mul8U32(psn))
      c_start  == AddSizeT(st_start, sts)
  IN  IF st_start >= Len(b) THEN "Incorrect metadata: public_symbols_number"
      ELSE IF c_start >= Len(b) THEN "Incorrect metadata: stringtab_size"
      ELSE IF sts # 0 /\ b[st_start + sts - 1 + 1] # 0
        THEN "Last string in table is not null-terminated"
      ELSE IF ~good THEN "IO error"
      ELSE ""

\* BytecodeFile::load
Load ==
  /\ pc = "load"
  /\ stringtab_size' = in_hdr[1]
  /\ global_area_size' = in_hdr[2]
  /\ public_symbols_number' = in_hdr[3]
  /\ bytes' = in_rest
  /\ stringtab_start' = 0 + U32ToSizeT(Mul8U32(in_hdr[3]))
  /\ code_start' = AddSizeT(stringtab_start', in_hdr[1])
  /\ err' = load_throws(in_hdr[1], in_hdr[3], in_rest, in_good)
  /\ pc' = IF err' = "" THEN "parse" ELSE "error"
  /\ UNCHANGED <<in_hdr, in_rest, in_good, wraps, offset, freq, sorted, k, os,
                 walked, strs, oob>>

\* freq.try_emplace(instr, 0).first->second++
try_emplace_inc(start) ==
  LET same == {s \in DOMAIN freq : as_sv(s) = as_sv(start)}
  IN  IF same # {}
        THEN [s \in DOMAIN freq |-> IF s \in same THEN freq[s] + 1 ELSE freq[s]]
        ELSE [s \in DOMAIN freq \cup {start} |-> IF s = start THEN 1 ELSE freq[s]]

\* one iteration of the loop of Frequencies::parse
ParseStep ==
  /\ pc = "parse"
  /\ offset < code_size
  /\ Len(walked) < code_size + MaxExtraSteps
  /\ LET instr == get_instr(offset)
     IN  IF instr.err # ""
           THEN /\ err' = instr.err
                /\ pc' = "error"
                /\ UNCHANGED <<offset, freq, walked>>
           ELSE /\ freq' = try_emplace_inc(instr.start)
                /\ offset' = offset + Instruction_size(instr.start)
                /\ walked' = Append(walked, [off   |-> offset,
                                             start |-> instr.start,
                                             len   |-> Instruction_size(instr.start)])
                /\ UNCHANGED <<pc, err>>
  /\ UNCHANGED <<in_hdr, in_rest, in_good, wraps, stringtab_size, global_area_size,
                 public_symbols_number, bytes, stringtab_start, code_start,
                 sorted, k, os, strs, oob>>

\* the comparison Frequencies::print sorts by
SortsBefore(a, b) ==
  IF freq[a] # freq[b] THEN freq[a] > freq[b]
  ELSE LexLess(as_sv(a), as_sv(b))

RECURSIVE SortedBy(_)
\* std::sort of the entries whose keys are S
SortedBy(S) ==
  IF S = {} THEN <<>>
  ELSE LET first == CHOOSE a \in S : \A b \in S \ {a} : SortsBefore(a, b)
       IN  <<[code |-> first, n_entries |-> freq[first]]>> \o SortedBy(S \ {first})

\* Frequencies::parse returns; Frequencies::print copies freq and sorts the copy
PrintBegin ==
  /\ pc = "parse"
  /\ ~(offset < code_size)
  /\ sorted' = SortedBy(DOMAIN freq)
  /\ k' = 1
  /\ pc' = "print"
  /\ UNCHANGED <<in_hdr, in_rest, in_good, wraps, stringtab_size, global_area_size,
                 public_symbols_number, bytes, stringtab_start, code_start, err,
                 offset, freq, os, walked, strs, oob>>

\* one iteration of the loop of Frequencies::print
PrintStep ==
  /\ pc = "print"
  /\ k <= Len(sorted)
  /\ \E r \in Instruction_print(sorted[k].code) :
       /\ os' = os \o DecNat(sorted[k].n_entries) \o Mnemonic.x \o r.out
                   \o (IF r.err = "" THEN <<10>> ELSE <<>>)
       /\ err' = r.err
       /\ pc' = IF r.err = "" THEN "print" ELSE "error"
       /\ strs' = strs \cup r.strs
       /\ oob' = (oob \/ r.oob)
  /\ k' = k + 1
  /\ UNCHANGED <<in_hdr, in_rest, in_good, wraps, stringtab_size, global_area_size,
                 public_symbols_number, bytes, stringtab_start, code_start,
                 offset, freq, sorted, walked>>

\* Frequencies::print returns and main returns EXIT_SUCCESS
Exit ==
  /\ pc = "print"
  /\ ~(k <= Len(sorted))
  /\ pc' = "done"
  /\ UNCHANGED <<in_hdr, in_rest, in_good, wraps, stringtab_size, global_area_size,
                 public_symbols_number, bytes, stringtab_start, code_start, err,
                 offset, freq, sorted, k, os, walked, strs, oob>>

Next == Load \/ ParseStep \/ PrintBegin \/ PrintStep \/ Exit

Spec == Init /\ [][Next]_vars

-----------------------------------------------------------------------------
(* The report, read back from the output stream. *)

RECURSIVE SplitLines(_, _)
\* the complete lines of text s (each ended by '\n'), cur the line being read
SplitLines(s, cur) ==
  IF s = <<>> THEN <<>>
  ELSE IF Head(s) = 10 THEN <<cur>> \o SplitLines(Tail(s), <<>>)
  ELSE SplitLines(Tail(s), Append(cur, Head(s)))

ReportLines == SplitLines(os, <<>>)

RECURSIVE DigitsLen(_)
\* number of decimal digits a line starts with
DigitsLen(l) ==
  IF l # <<>> /\ Head(l) \in 48..57 THEN 1 + DigitsLen(Tail(l)) ELSE 0

RECURSIVE NatOf(_, _)
\* the number written by the digits d, acc the value of the digits read
NatOf(d, acc) ==
  IF d = <<>> THEN acc ELSE NatOf(Tail(d), 10 * acc + (Head(d) - 48))

\* the count of a report line "<count> x <text>"
LineCount(l) == NatOf(SubSeq(l, 1, DigitsLen(l)), 0)

\* the canonical text of a report line "<count> x <text>"
LineText(l) == SubSeq(l, DigitsLen(l) + 4, Len(l))

\* the canonical text of the instruction at start, when print returns
Rendering(start) == (CHOOSE r \in Instruction_print(start) : r.err = "").out

\* what() of the exceptions load throws
LoadErrors ==
  { "Incorrect metadata: public_symbols_number",
    "Incorrect metadata: stringtab_size",
    "Last string in table is not null-terminated",
    "IO error" }

\* load has returned
Loaded == pc # "load" /\ err \notin LoadErrors

\* the opcode byte of the i-th instruction the walk decoded
OpcodeOf(i) == bytes[walked[i].start + 1]

\* the walked instructions that precede the first halt marker (all, if none)
BeforeFirstHalt ==
  {i \in 1..Len(walked) : \A j \in 1..i : OpcodeOf(j) \div 16 # 15}

RECURSIVE SumCounts(_)
SumCounts(ls) == IF ls = <<>> THEN 0 ELSE LineCount(Head(ls)) + SumCounts(Tail(ls))

-----------------------------------------------------------------------------
(* Claims. *)

\* C1: the walk stops at the first instruction whose high nibble is 0xF: the
\* halt marker is not counted, nothing after it is decoded, no report line
\* renders it, and the counts of a finished report add up to the number of
\* instructions decoded before it.
C1_WalkStopsAtHalt ==
  /\ \A s \in DOMAIN freq : Hi(s) # 15
  /\ \A i \in 1..Len(walked) : OpcodeOf(i) \div 16 = 15 => i = Len(walked)
  /\ \A i \in 1..Len(ReportLines) : LineText(ReportLines[i]) # Mnemonic.end
  /\ pc = "done" => SumCounts(ReportLines) = Cardinality(BeforeFirstHalt)

\* C2: a run that raises an error has written nothing to the output.
C2_NoPartialOutput == err # "" => os = <<>>

\* C3: in a finished report no two lines carry the same canonical text, and the
\* count of a line is the number of walked instructions that render to its text.
C3_KeyedByCanonicalText ==
  pc = "done" =>
    /\ \A i, j \in 1..Len(ReportLines) :
         i # j => LineText(ReportLines[i]) # LineText(ReportLines[j])
    /\ \A i \in 1..Len(ReportLines) :
         LineCount(ReportLines[i]) =
           Cardinality({w \in 1..Len(walked) :
                          Rendering(walked[w].start) = LineText(ReportLines[i])})

\* C4: of two report lines the earlier has the greater count, or the same count
\* and the byte-wise lexicographically smaller canonical text.
C4_ReportOrdering ==
  \A i, j \in 1..Len(ReportLines) :
    i < j =>
      \/ LineCount(ReportLines[i]) > LineCount(ReportLines[j])
      \/ /\ LineCount(ReportLines[i]) = LineCount(ReportLines[j])
         /\ LexLess(LineText(ReportLines[i]), LineText(ReportLines[j]))

\* C5: a decoded closure instruction has all n capture entries inside the code
\* region, and no byte at or beyond the end of the code region is ever read.
C5_ClosureInBounds ==
  /\ ~oob
  /\ \A i \in 1..Len(walked) :
       OpcodeOf(i) = 84 =>
         LET n == get_int(walked[i].start, 5)
         IN  n > 0 => /\ walked[i].start + 9 <= size
                      /\ n <= (size - walked[i].start - 9) \div 5

\* the opcode bytes of the table
OpcodeTable ==
  240..255 \cup 1..13 \cup 16..27 \cup 32..35 \cup 48..51 \cup 64..67
    \cup 80..90 \cup 96..102 \cup 112..116

\* C6: a byte that is not in the opcode table is rejected by the decode step that
\* reads it: it is never accepted as an instruction nor entered in the table.
C6_InvalidOpcodeRejected ==
  /\ \A i \in 1..Len(walked) : OpcodeOf(i) \in OpcodeTable
  /\ \A s \in DOMAIN freq : bytes[s + 1] \in OpcodeTable

\* C7: load succeeds only when 8 * public_symbols_number + stringtab_size, as an
\* exact integer, is less than the length of the buffer, and code_start is that sum.
C7_LoadRejectsBadMetadata ==
  Loaded =>
    /\ stringtab_size < size
    /\ public_symbols_number <= (size - stringtab_size - 1) \div 8
    /\ code_start = 8 * public_symbols_number + stringtab_size

\* C8: no run completes after walking a STRING, SEXP or TAG instruction whose
\* string offset is negative or not less than stringtab_size.
C8_StringOffsetChecked ==
  pc = "done" =>
    \A i \in 1..Len(walked) :
      OpcodeOf(i) \in {17, 18, 87} =>
        /\ 0 <= get_int(walked[i].start, 1)
        /\ get_int(walked[i].start, 1) < stringtab_size

\* C9: once load has succeeded, the text at every offset get_str accepts ends
\* with a 0 byte inside the string table, and so does every text that was read.
C9_StringInsideTable ==
  Loaded =>
    /\ \A off \in -2..(size + 2) :
         BytecodeFile_get_str(off) # Throws =>
           CStrEnd(BytecodeFile_get_str(off)) <= stringtab_start + stringtab_size - 1
    /\ \A r \in strs :
         /\ stringtab_start <= r.ptr
         /\ r.end <= stringtab_start + stringtab_size - 1

\* C9 witness: a finished run printed a non-empty string that starts inside a
\* string table that does not start the buffer.
C9_Witness ==
  /\ pc = "done"
  /\ \E r \in strs : r.end > r.ptr /\ r.ptr >= stringtab_start /\ stringtab_start > 0

\* C10: every decoded instruction has length at least 1 (at least 9 for a
\* closure) and ends inside the code region, the cursor moves by exactly that
\* length, and the walk takes at most code-size decode steps.
C10_CursorAdvances ==
  Loaded =>
    /\ \A i \in 1..Len(walked) :
         /\ walked[i].len >= 1
         /\ OpcodeOf(i) = 84 => walked[i].len >= 9
         /\ walked[i].off + walked[i].len <= code_size
         /\ IF i < Len(walked)
              THEN walked[i + 1].off = walked[i].off + walked[i].len
              ELSE offset = walked[i].off + walked[i].len
    /\ Len(walked) <= code_size

====
